---- MODULE Spec2Model ----
(***************************************************************************)
(* Model of UserProgressTracker (src/prompt_training_app.py, lines         *)
(* 454-708): the persistent progress ledger of promptQUEST.                *)
(*                                                                         *)
(* State: the tracker's in-memory document (self.data), the storage file,  *)
(* its sibling temporary file "<storage_file>.tmp", the backup copies of   *)
(* corrupted files, the CSV exports written, and the wall clock that       *)
(* stamps attempts.  Handlers (add_user, record_attempt, the constructor,  *)
(* the queries, export_to_csv) are atomic actions: a tracker is            *)
(* synchronous.  A second tracker instance on the same storage file (peer) *)
(* stands for another process of the application.                          *)
(*                                                                         *)
(* Representation choices:                                                 *)
(*  - data["users"] is a function from usernames to records; the dict's    *)
(*    insertion order is not observed by any modelled operation.           *)
(*  - avg_score (a float rounded to 2 decimals) is kept in hundredths.     *)
(*  - timestamps are the ISO strings of IsoTable, one per clock tick.      *)
(*  - file contents are JSON texts, modelled as JSON value trees; a text   *)
(*    cut short by a failed write, and foreign bytes, are distinct kinds.  *)
(***************************************************************************)
EXTENDS Integers, Sequences, FiniteSets, TLC

VARIABLES
    data,       \* self.data: [users, leaderboard]
    file,       \* content of self.storage_file
    tmp,        \* content of "<storage_file>.tmp"
    backups,    \* contents of the "<storage_file>.backup_<time>" files
    exports,    \* the CSV files in the working directory: name and content
    clock,      \* ticks of datetime.now() consumed so far
    budget,     \* I/O faults the environment may still inject
    peer,       \* self.data of a second tracker on the same storage file
    saving,     \* where each tracker stands in a _save_data run step by step
    op,         \* the last completed call and what it did
    args,       \* the arguments of the last call, the username apart
    ret         \* what the last call returned

vars == <<data, file, tmp, backups, exports, clock, budget, peer, saving, op, args, ret>>

(***************************************************************************)
(* Bounds of the model.                                                    *)
(***************************************************************************)
MaxClock == 2       \* record_attempt calls explored by Spec
MaxDepth == 5       \* record_attempt calls explored by SpecLedger
MaxLong == 6        \* record_attempt calls explored by SpecLong
MaxFaults == 1      \* faulty file operations and foreign writes in one behaviour
MaxExport == 1      \* record_attempt calls explored by SpecExport
MaxBackup == 2      \* record_attempt calls explored by SpecBackup
MaxBoard == 4       \* record_attempt calls explored by SpecBoard
MaxQuery == 3       \* record_attempt calls explored by SpecQuery
MaxTwo == 3         \* record_attempt calls explored by SpecTwo
MaxCareer == 10     \* record_attempt calls explored by SpecCareer
MaxSummary == 2     \* record_attempt calls explored by SpecSummary
MaxRows == 3        \* record_attempt calls explored by SpecRows
MaxOff == 1         \* of these, attempts at scenarios that are not advanced
MaxTop == 3         \* the largest top_n given to get_leaderboard

(***************************************************************************)
(* Program constants.                                                      *)
(***************************************************************************)
AdvancedAvg == 85
AdvancedAttempts == 5
IntermediateAvg == 70
IntermediateAttempts == 3
PerfectScore == 100
HighScore == 80
ConsistentCount == 3
DedicatedAttempts == 10
MasterCount == 5
MasterAvg == 85
BackupEvery == 5

Users == {"alice", "bob"}

IsoTable ==
    << "2024-01-01T00:00:01", "2024-01-01T00:00:02", "2024-01-01T00:00:03",
       "2024-01-01T00:00:04", "2024-01-01T00:00:05", "2024-01-01T00:00:06",
       "2024-01-01T00:00:07", "2024-01-01T00:00:08", "2024-01-01T00:00:09",
       "2024-01-01T00:00:10", "2024-01-01T00:00:11", "2024-01-01T00:00:12" >>

\* datetime.now().isoformat() at clock tick n
IsoFormat(n) == IsoTable[n]

\* the clock tick at which a timestamp was taken
StampTick(stamp) == CHOOSE n \in 1..Len(IsoTable) : IsoTable[n] = stamp

StrfTable ==
    << "20240101_000000", "20240101_000001", "20240101_000002",
       "20240101_000003", "20240101_000004", "20240101_000005",
       "20240101_000006", "20240101_000007", "20240101_000008",
       "20240101_000009", "20240101_000010", "20240101_000011",
       "20240101_000012" >>

\* datetime.now().strftime('%Y%m%d_%H%M%S') in the second of clock tick n
\* (n = 0: before the first tick)
StrfTime(n) == StrfTable[n + 1]

(***************************************************************************)
(* An argument that has a default: left out of the call, or given.         *)
(***************************************************************************)
Omitted == <<>>
Given(x) == <<x>>

(***************************************************************************)
(* Scenario ids are strings of characters, kept as sequences of one-letter *)
(* strings so that str.startswith can be computed.                         *)
(***************************************************************************)
StartsWith(s, c) == Len(s) >= 1 /\ s[1] = c

(***************************************************************************)
(* Evaluation records handed in by the caller (opaque to the tracker).     *)
(***************************************************************************)
EvalFull ==
    [ clarity_score |-> 20, specificity_score |-> 22, structure_score |-> 21,
      task_alignment_score |-> 22, total_score |-> 85,
      feedback |-> "Good test prompt!",
      strengths |-> <<"Clear", "Specific">>,
      improvements |-> <<"Add more context">> ]

EvalBare ==
    [ clarity_score |-> 18, specificity_score |-> 19, structure_score |-> 17,
      task_alignment_score |-> 18, total_score |-> 72,
      feedback |-> "Basic prompt, could use more detail.",
      strengths |-> <<>>,
      improvements |-> <<>> ]

\* the arguments of record_attempt after username; p is Omitted or Given
Call(sid, sc, ev, p) ==
    [scenario_id |-> sid, score |-> sc, evaluation |-> ev, user_prompt |-> p]

\* user_prompt: str = ""
UserPrompt(call) ==
    IF call.user_prompt = Omitted THEN "" ELSE call.user_prompt[1]

\* arguments of record_attempt explored by Spec
Calls ==
    { Call(<<"b", "1">>, 100, EvalFull, Given("Write a summary")),
      Call(<<"a", "1">>, 60, EvalBare, Omitted) }

\* calls of record_attempt explored by SpecLedger: who records what
By(username, call) == [user |-> username, call |-> call]

LedgerCalls ==
    { By("alice", Call(<<"b", "1">>, 100, EvalFull, Given("Write a summary"))),
      By("alice", Call(<<"i", "1">>, 90, EvalFull, Given("Draft an email"))),
      By("alice", Call(<<"a", "1">>, 95, EvalFull, Given("Plan a migration"))),
      By("bob", Call(<<"a", "2">>, 90, EvalBare, Omitted)),
      By("bob", Call(<<"a", "1">>, 95, EvalFull, Given("Plan a migration"))),
      By("bob", Call(<<"i", "1">>, 60, EvalBare, Given("Draft an email"))) }

\* calls of record_attempt explored by SpecLong
LongCalls ==
    { By("bob", Call(<<"a", "2">>, 90, EvalBare, Omitted)),
      By("bob", Call(<<"a", "1">>, 60, EvalFull, Given("Plan a migration"))),
      By("alice", Call(<<"b", "1">>, 100, EvalFull, Given("Write a summary"))) }

(***************************************************************************)
(* The document.                                                           *)
(***************************************************************************)
NoUsers == [u \in {} |-> 0]

EmptyDoc == [users |-> NoUsers, leaderboard |-> <<>>]

NewUser ==
    [ total_score |-> 0, attempts |-> 0, skill_level |-> "beginner",
      badges |-> <<>>, history |-> <<>> ]

RECURSIVE SumScores(_)
SumScores(h) == IF h = <<>> THEN 0 ELSE h[1].score + SumScores(Tail(h))

Has(s, x) == \E i \in 1..Len(s) : s[i] = x

(***************************************************************************)
(* record_attempt, lines 528-544: counters, history, skill level.          *)
(***************************************************************************)
\* mutant: a user who meets neither rule falls back to beginner
SkillLevelReset(total, attempts, prior) ==
    IF total >= AdvancedAvg * attempts /\ attempts >= AdvancedAttempts
    THEN "advanced"
    ELSE IF total >= IntermediateAvg * attempts /\ attempts >= IntermediateAttempts
         THEN "intermediate"
         ELSE "beginner"

\* mutant: attempts > 3 instead of attempts >= 3
SkillLevelLate(total, attempts, prior) ==
    IF total >= AdvancedAvg * attempts /\ attempts >= AdvancedAttempts
    THEN "advanced"
    ELSE IF total >= IntermediateAvg * attempts /\ attempts > IntermediateAttempts
         THEN "intermediate"
         ELSE prior

\* mutant: an advanced user stays advanced
SkillLevelSticky(total, attempts, prior) ==
    IF prior = "advanced" \/ (total >= AdvancedAvg * attempts /\ attempts >= AdvancedAttempts)
    THEN "advanced"
    ELSE IF total >= IntermediateAvg * attempts /\ attempts >= IntermediateAttempts
         THEN "intermediate"
         ELSE prior

\* mutant: intermediate from the second attempt on
SkillLevelEarly(total, attempts, prior) ==
    IF total >= AdvancedAvg * attempts /\ attempts >= AdvancedAttempts
    THEN "advanced"
    ELSE IF total >= IntermediateAvg * attempts /\ attempts >= IntermediateAttempts - 1
         THEN "intermediate"
         ELSE prior

\* lines 540-544; avg_score >= k is total_score / attempts >= k
SkillLevel(total, attempts, prior) ==
    IF total >= AdvancedAvg * attempts /\ attempts >= AdvancedAttempts
    THEN "advanced"
    ELSE IF total >= IntermediateAvg * attempts /\ attempts >= IntermediateAttempts
         THEN "intermediate"
         ELSE prior

\* mutant: the entry is put at the front of the history
CountAttemptFront(user, call, stamp) ==
    LET attempts == user.attempts + 1
        total == user.total_score + call.score
        entry == [ timestamp |-> stamp,
                   scenario_id |-> call.scenario_id,
                   score |-> call.score,
                   evaluation |-> call.evaluation,
                   user_prompt |-> UserPrompt(call) ]
    IN [ user EXCEPT !.attempts = attempts,
                     !.total_score = total,
                     !.history = <<entry>> \o user.history,
                     !.skill_level = SkillLevel(total, attempts, user.skill_level) ]

\* mutant: total_score = score instead of total_score += score
CountAttemptAssign(user, call, stamp) ==
    LET attempts == user.attempts + 1
        total == call.score
        entry == [ timestamp |-> stamp,
                   scenario_id |-> call.scenario_id,
                   score |-> call.score,
                   evaluation |-> call.evaluation,
                   user_prompt |-> UserPrompt(call) ]
    IN [ user EXCEPT !.attempts = attempts,
                     !.total_score = total,
                     !.history = Append(user.history, entry),
                     !.skill_level = SkillLevel(total, attempts, user.skill_level) ]

\* lines 528-544
CountAttempt(user, call, stamp) ==
    LET attempts == user.attempts + 1
        total == user.total_score + call.score
        entry == [ timestamp |-> stamp,
                   scenario_id |-> call.scenario_id,
                   score |-> call.score,
                   evaluation |-> call.evaluation,
                   user_prompt |-> UserPrompt(call) ]
    IN [ user EXCEPT !.attempts = attempts,
                     !.total_score = total,
                     !.history = Append(user.history, entry),
                     !.skill_level = SkillLevel(total, attempts, user.skill_level) ]

(***************************************************************************)
(* _check_and_award_badges, lines 557-580.                                 *)
(***************************************************************************)
Award(badges, holds, name) ==
    IF holds /\ ~Has(badges, name) THEN Append(badges, name) ELSE badges

PerfectRule(user) == \E i \in 1..Len(user.history) : user.history[i].score = PerfectScore

ConsistentRule(user) ==
    Len(SelectSeq(user.history, LAMBDA h : h.score > HighScore)) >= ConsistentCount

\* mutant: more than 10 attempts instead of at least 10
DedicatedRuleLate(user) == user.attempts > DedicatedAttempts

DedicatedRule(user) == user.attempts >= DedicatedAttempts

\* mutant: more than 5 advanced attempts instead of at least 5
MasterRuleSix(user) ==
    LET advanced_attempts ==
            SelectSeq(user.history, LAMBDA h : StartsWith(h.scenario_id, "a"))
    IN /\ Len(advanced_attempts) > MasterCount
       /\ SumScores(advanced_attempts) > MasterAvg * Len(advanced_attempts)

MasterRule(user) ==
    LET advanced_attempts ==
            SelectSeq(user.history, LAMBDA h : StartsWith(h.scenario_id, "a"))
    IN /\ Len(advanced_attempts) >= MasterCount
       /\ SumScores(advanced_attempts) > MasterAvg * Len(advanced_attempts)

\* mutant: the badge list is rebuilt from the rules that hold now
CheckAndAwardBadgesRebuilt(user) ==
    LET b1 == Award(<<>>, PerfectRule(user), "Perfect Score")
        b2 == Award(b1, ConsistentRule(user), "Consistent Performer")
        b3 == Award(b2, DedicatedRule(user), "Dedicated Learner")
        b4 == Award(b3, MasterRule(user), "Advanced Master")
    IN [user EXCEPT !.badges = b4]

CheckAndAwardBadges(user) ==
    LET b1 == Award(user.badges, PerfectRule(user), "Perfect Score")
        b2 == Award(b1, ConsistentRule(user), "Consistent Performer")
        b3 == Award(b2, DedicatedRule(user), "Dedicated Learner")
        b4 == Award(b3, MasterRule(user), "Advanced Master")
    IN [user EXCEPT !.badges = b4]

(***************************************************************************)
(* _update_leaderboard, lines 582-603.                                     *)
(***************************************************************************)
\* round(total / attempts, 2) in hundredths; round() rounds a tie to even.
\* A tie needs 200 * total / attempts odd, which a float holds exactly only
\* for attempts a multiple of 8 (x.125 etc.); exact for attempts < 40.
Round2(total, attempts) ==
    IF attempts > 0
    THEN LET n == 100 * total
             q == n \div attempts
             r == n % attempts
         IN IF 2 * r > attempts \/ (2 * r = attempts /\ q % 2 = 1) THEN q + 1 ELSE q
    ELSE 0

\* mutant: an entry is put before the entries of equal avg_score
InsertDescFirst(sorted, e) ==
    LET before == SelectSeq(sorted, LAMBDA x : x.avg_score > e.avg_score)
        after == SelectSeq(sorted, LAMBDA x : x.avg_score <= e.avg_score)
    IN before \o <<e>> \o after

\* list.sort(key=avg_score, reverse=True): stable, descending
RECURSIVE InsertDesc(_, _)
InsertDesc(sorted, e) ==
    IF sorted = <<>> THEN <<e>>
    ELSE IF sorted[1].avg_score >= e.avg_score
         THEN <<sorted[1]>> \o InsertDesc(Tail(sorted), e)
         ELSE <<e>> \o sorted

\* mutant: the sort takes the elements from the back, so that equal
\* elements change places
RECURSIVE SortDescBack(_)
SortDescBack(s) ==
    IF s = <<>> THEN <<>>
    ELSE InsertDesc(SortDescBack(Tail(s)), s[1])

RECURSIVE SortDesc(_)
SortDesc(s) ==
    IF s = <<>> THEN <<>>
    ELSE InsertDesc(SortDesc(SubSeq(s, 1, Len(s) - 1)), s[Len(s)])

\* mutant: the average is cut to 2 decimals, not rounded
LeaderboardEntryCut(username, user) ==
    [ username |-> username,
      avg_score |-> IF user.attempts > 0
                    THEN (100 * user.total_score) \div user.attempts ELSE 0,
      total_attempts |-> user.attempts,
      skill_level |-> user.skill_level,
      badges |-> Len(user.badges) ]

LeaderboardEntry(username, user) ==
    [ username |-> username,
      avg_score |-> Round2(user.total_score, user.attempts),
      total_attempts |-> user.attempts,
      skill_level |-> user.skill_level,
      badges |-> Len(user.badges) ]

\* mutant: the existing entry is not removed
UpdateLeaderboardKeep(leaderboard, username, user) ==
    SortDesc(Append(leaderboard, LeaderboardEntry(username, user)))

UpdateLeaderboard(leaderboard, username, user) ==
    LET others == SelectSeq(leaderboard, LAMBDA e : e.username # username)
    IN SortDesc(Append(others, LeaderboardEntry(username, user)))

(***************************************************************************)
(* JSON texts.  json.dump writes a dict as an object whose members are     *)
(* key/value pairs in sequence, a list as an array, an int and a float as  *)
(* numbers, a str as a string; json.load reads them back.                  *)
(***************************************************************************)
JInt(n) == [t |-> "int", v |-> n]
JFloat(h) == [t |-> "float", v |-> h]
JStr(x) == [t |-> "str", s |-> x]
JArr(elems) == [t |-> "arr", e |-> elems]
JObj(members) == [t |-> "obj", m |-> members]

Map(s, F(_)) == [i \in 1..Len(s) |-> F(s[i])]

RECURSIVE SetToSeq(_)
SetToSeq(S) ==
    IF S = {} THEN <<>>
    ELSE LET x == CHOOSE y \in S : TRUE IN <<x>> \o SetToSeq(S \ {x})

DumpStrs(strs) == JArr(Map(strs, JStr))

DumpEval(ev) ==
    JObj(<< <<"clarity_score", JInt(ev.clarity_score)>>,
            <<"specificity_score", JInt(ev.specificity_score)>>,
            <<"structure_score", JInt(ev.structure_score)>>,
            <<"task_alignment_score", JInt(ev.task_alignment_score)>>,
            <<"total_score", JInt(ev.total_score)>>,
            <<"feedback", JStr(ev.feedback)>>,
            <<"strengths", DumpStrs(ev.strengths)>>,
            <<"improvements", DumpStrs(ev.improvements)>> >>)

DumpAttempt(a) ==
    JObj(<< <<"timestamp", JStr(a.timestamp)>>,
            <<"scenario_id", JStr(a.scenario_id)>>,
            <<"score", JInt(a.score)>>,
            <<"evaluation", DumpEval(a.evaluation)>>,
            <<"user_prompt", JStr(a.user_prompt)>> >>)

DumpUser(user) ==
    JObj(<< <<"total_score", JInt(user.total_score)>>,
            <<"attempts", JInt(user.attempts)>>,
            <<"skill_level", JStr(user.skill_level)>>,
            <<"badges", DumpStrs(user.badges)>>,
            <<"history", JArr(Map(user.history, DumpAttempt))>> >>)

DumpEntry(entry) ==
    JObj(<< <<"username", JStr(entry.username)>>,
            <<"avg_score", JFloat(entry.avg_score)>>,
            <<"total_attempts", JInt(entry.total_attempts)>>,
            <<"skill_level", JStr(entry.skill_level)>>,
            <<"badges", JInt(entry.badges)>> >>)

\* json.dump(self.data, f, indent=2), line 496
Dump(doc) ==
    LET names == SetToSeq(DOMAIN doc.users)
    IN JObj(<< <<"users",
                 JObj(Map(names, LAMBDA u : <<u, DumpUser(doc.users[u])>>))>>,
               <<"leaderboard", JArr(Map(doc.leaderboard, DumpEntry))>> >>)

Keys(obj) == {obj.m[i][1] : i \in 1..Len(obj.m)}

\* the value of a key: of several members with one key the last one counts
Get(obj, k) ==
    LET at == {i \in 1..Len(obj.m) : obj.m[i][1] = k}
        last == CHOOSE i \in at : \A j \in at : j <= i
    IN obj.m[last][2]

LoadStrs(node) == Map(node.e, LAMBDA x : x.s)

LoadEval(node) ==
    [ clarity_score |-> Get(node, "clarity_score").v,
      specificity_score |-> Get(node, "specificity_score").v,
      structure_score |-> Get(node, "structure_score").v,
      task_alignment_score |-> Get(node, "task_alignment_score").v,
      total_score |-> Get(node, "total_score").v,
      feedback |-> Get(node, "feedback").s,
      strengths |-> LoadStrs(Get(node, "strengths")),
      improvements |-> LoadStrs(Get(node, "improvements")) ]

LoadAttempt(node) ==
    [ timestamp |-> Get(node, "timestamp").s,
      scenario_id |-> Get(node, "scenario_id").s,
      score |-> Get(node, "score").v,
      evaluation |-> LoadEval(Get(node, "evaluation")),
      user_prompt |-> Get(node, "user_prompt").s ]

LoadUser(node) ==
    [ total_score |-> Get(node, "total_score").v,
      attempts |-> Get(node, "attempts").v,
      skill_level |-> Get(node, "skill_level").s,
      badges |-> LoadStrs(Get(node, "badges")),
      history |-> Map(Get(node, "history").e, LoadAttempt) ]

LoadEntry(node) ==
    [ username |-> Get(node, "username").s,
      avg_score |-> Get(node, "avg_score").v,
      total_attempts |-> Get(node, "total_attempts").v,
      skill_level |-> Get(node, "skill_level").s,
      badges |-> Get(node, "badges").v ]

\* mutant: the leaderboard is read back to front
LoadReversed(node) ==
    LET users == Get(node, "users")
        board == Map(Get(node, "leaderboard").e, LoadEntry)
    IN [ users |-> [u \in Keys(users) |-> LoadUser(Get(users, u))],
         leaderboard |-> [i \in 1..Len(board) |-> board[Len(board) + 1 - i]] ]

\* json.load(f), line 466, of a text that holds a document
Load(node) ==
    LET users == Get(node, "users")
    IN [ users |-> [u \in Keys(users) |-> LoadUser(Get(users, u))],
         leaderboard |-> Map(Get(node, "leaderboard").e, LoadEntry) ]

(***************************************************************************)
(* Files.  A file is absent, or holds a complete JSON text, or the head of *)
(* a JSON text whose write failed midway, or foreign text that is not      *)
(* JSON, or foreign bytes that are not text.                               *)
(***************************************************************************)
JNull == [t |-> "null"]
Absent == [kind |-> "absent", json |-> JNull]
Text(node) == [kind |-> "json", json |-> node]
Truncated(node) == [kind |-> "truncated", json |-> node]
Garbage == [kind |-> "garbage", json |-> JNull]
Binary == [kind |-> "binary", json |-> JNull]

Exists(f) == f.kind # "absent"

\* what a foreign writer may leave in the storage file
ForeignContents ==
    { Garbage, Binary,
      Text(JArr(<<>>)),
      Text(JObj(<< <<"users", JObj(<<>>)>> >>)),
      Text(JObj(<< <<"leaderboard", JArr(<<>>)>> >>)) }

(***************************************************************************)
(* _load_data, lines 461-488.  The result names the document returned and  *)
(* the backup files afterwards.                                            *)
(***************************************************************************)
\* isinstance(data, dict) and 'users' in data and 'leaderboard' in data
ValidStructure(node) ==
    node.t = "obj" /\ "users" \in Keys(node) /\ "leaderboard" \in Keys(node)

\* how a load may go: "ok", or open()/read() raises, or shutil.copy2 raises
LoadOutcomes(f, left) ==
    {"ok"}
    \cup (IF Exists(f) /\ left >= 1 THEN {"read_fails"} ELSE {})
    \cup (IF f.kind \in {"garbage", "truncated"} /\ left >= 1
          THEN {"copy_fails"} ELSE {})

LoadCost(o) == IF o = "ok" THEN 0 ELSE 1

LoadData(f, saved, o) ==
    IF ~Exists(f)
    THEN [doc |-> EmptyDoc, backups |-> saved, branch |-> "absent"]
    ELSE IF o = "read_fails" \/ f.kind = "binary"
    THEN \* except Exception, lines 485-487
         [ doc |-> EmptyDoc, backups |-> saved,
           branch |-> IF o = "read_fails" THEN "read_error" ELSE "decode_error" ]
    ELSE IF f.kind \in {"garbage", "truncated"}
    THEN \* except json.JSONDecodeError, lines 472-484
         [ doc |-> EmptyDoc,
           backups |-> IF o = "copy_fails" THEN saved ELSE saved \cup {f},
           branch |-> IF o = "copy_fails" THEN "corrupted_no_backup" ELSE "corrupted" ]
    ELSE IF ~ValidStructure(f.json)
    THEN \* lines 468-470
         [doc |-> EmptyDoc, backups |-> saved, branch |-> "invalid"]
    ELSE [doc |-> Load(f.json), backups |-> saved, branch |-> "loaded"]

(***************************************************************************)
(* _save_data, lines 490-509.  The text is written to the temporary file,  *)
(* which shutil.move then puts in place of the storage file: by os.rename, *)
(* and when os.rename raises OSError (as it does on Windows whenever the   *)
(* target exists) by copying the temporary file over the storage file and  *)
(* unlinking it.  Any exception is caught; the handler removes the         *)
(* temporary file if it exists and ignores a failure to remove it.         *)
(*                                                                         *)
(* An outcome names the first step that fails:                             *)
(*   none        nothing fails                                             *)
(*   open_tmp    open(temp_file, 'w') raises                               *)
(*   write_tmp   json.dump raises after part of the text is written        *)
(*   rename      os.rename raises, the copy and the unlink succeed         *)
(*   copy_open   os.rename raises, the copy cannot open the storage file   *)
(*   copy_write  os.rename raises, the copy fails after truncating the     *)
(*               storage file and writing part of the text                 *)
(*   unlink      os.rename raises, the copy succeeds, os.unlink raises     *)
(* and remove_ok tells whether the handler's os.remove succeeds.           *)
(* "rename" is a fault of the file system that the save survives.          *)
(***************************************************************************)
NoFault == [step |-> "none", remove_ok |-> TRUE]

\* a save in which some file operation fails spends one fault of the budget
SaveCost(o) == IF o = NoFault THEN 0 ELSE 1

SaveOutcomes(t, left) ==
    { o \in [ step : {"none", "open_tmp", "write_tmp", "rename",
                      "copy_open", "copy_write", "unlink"},
              remove_ok : BOOLEAN ] :
        /\ SaveCost(o) <= left
        /\ o.step \in {"none", "rename"} => o.remove_ok
        /\ ~o.remove_ok =>
              \/ o.step \in {"write_tmp", "copy_open", "copy_write", "unlink"}
              \/ o.step = "open_tmp" /\ Exists(t) }

\* lines 503-509
Cleanup(t, o) == IF Exists(t) /\ o.remove_ok THEN Absent ELSE t

\* mutant: the move does not replace a storage file that exists
SaveDataNoReplace(doc, f, t, o) ==
    [ file |-> IF Exists(f) THEN f ELSE Text(Dump(doc)),
      tmp |-> Absent, ok |-> TRUE ]

\* mutant: the save writes the users and leaves the leaderboard out
SaveDataUsersOnly(doc, f, t, o) ==
    LET text == Dump([doc EXCEPT !.leaderboard = <<>>]) IN
    CASE o.step \in {"none", "rename"} ->
           [file |-> Text(text), tmp |-> Absent, ok |-> TRUE]
      [] o.step = "open_tmp" ->
           [file |-> f, tmp |-> Cleanup(t, o), ok |-> FALSE]
      [] o.step = "write_tmp" ->
           [file |-> f, tmp |-> Cleanup(Truncated(text), o), ok |-> FALSE]
      [] o.step = "copy_open" ->
           [file |-> f, tmp |-> Cleanup(Text(text), o), ok |-> FALSE]
      [] o.step = "copy_write" ->
           [file |-> Truncated(text), tmp |-> Cleanup(Text(text), o), ok |-> FALSE]
      [] o.step = "unlink" ->
           [file |-> Text(text), tmp |-> Cleanup(Text(text), o), ok |-> FALSE]

SaveData(doc, f, t, o) ==
    LET text == Dump(doc) IN
    CASE o.step = "none" ->
           [file |-> Text(text), tmp |-> Absent, ok |-> TRUE]
      [] o.step = "open_tmp" ->
           [file |-> f, tmp |-> Cleanup(t, o), ok |-> FALSE]
      [] o.step = "write_tmp" ->
           [file |-> f, tmp |-> Cleanup(Truncated(text), o), ok |-> FALSE]
      [] o.step = "rename" ->
           [file |-> Text(text), tmp |-> Absent, ok |-> TRUE]
      [] o.step = "copy_open" ->
           [file |-> f, tmp |-> Cleanup(Text(text), o), ok |-> FALSE]
      [] o.step = "copy_write" ->
           [file |-> Truncated(text), tmp |-> Cleanup(Text(text), o), ok |-> FALSE]
      [] o.step = "unlink" ->
           [file |-> Text(text), tmp |-> Cleanup(Text(text), o), ok |-> FALSE]

(***************************************************************************)
(* add_user, lines 511-521.                                                *)
(***************************************************************************)
\* mutant: the record is created without looking for an existing one
AddUserDocAlways(doc, username) ==
    [doc EXCEPT !.users = (username :> NewUser) @@ [u \in DOMAIN doc.users \ {username} |-> doc.users[u]]]

AddUserDoc(doc, username) ==
    IF username \notin DOMAIN doc.users
    THEN [doc EXCEPT !.users = (username :> NewUser) @@ doc.users]
    ELSE doc

\* the call of _save_data at line 521 is made for a new user only
AddUserSaves(doc, username) == username \notin DOMAIN doc.users

(***************************************************************************)
(* record_attempt, lines 528-550: the document after the attempt is        *)
(* counted, badges are awarded and the leaderboard is updated.             *)
(***************************************************************************)
RecordDoc(doc, username, call, stamp) ==
    LET user == CheckAndAwardBadges(CountAttempt(doc.users[username], call, stamp))
    IN [ users |-> [doc.users EXCEPT ![username] = user],
         leaderboard |-> UpdateLeaderboard(doc.leaderboard, username, user) ]

(***************************************************************************)
(* What a call hands back: None, a value, or no value because it raised.   *)
(***************************************************************************)
None == [kind |-> "none"]
Value(v) == [kind |-> "value", value |-> v]
Raised == [kind |-> "raised"]

(***************************************************************************)
(* get_user_stats, lines 605-609, and get_leaderboard, lines 611-613.      *)
(***************************************************************************)
\* mutant: dict.setdefault, an unknown user is created and returned
GetUserStatsCreate(doc, username) ==
    [ doc |-> IF username \in DOMAIN doc.users THEN doc
              ELSE [doc EXCEPT !.users = (username :> NewUser) @@ doc.users],
      ret |-> IF username \in DOMAIN doc.users
              THEN Value(doc.users[username]) ELSE Value(NewUser) ]

\* the document afterwards and the value returned
GetUserStatsOf(doc, username) ==
    [ doc |-> doc,
      ret |-> IF username \notin DOMAIN doc.users
              THEN None ELSE Value(doc.users[username]) ]

DefaultTopN == 10

\* top_n: int = 10
TopN(top_n) == IF top_n = Omitted THEN DefaultTopN ELSE top_n[1]

Min(a, b) == IF a <= b THEN a ELSE b
Max(a, b) == IF a >= b THEN a ELSE b

\* mutant: the slice runs through index stop
SliceThrough(s, stop) ==
    IF stop >= 0 THEN SubSeq(s, 1, Min(stop + 1, Len(s)))
    ELSE SubSeq(s, 1, Max(Len(s) + stop + 1, 0))

\* s[:stop] of a list: a negative stop counts from the end
Slice(s, stop) ==
    IF stop >= 0 THEN SubSeq(s, 1, Min(stop, Len(s)))
    ELSE SubSeq(s, 1, Max(Len(s) + stop, 0))

GetLeaderboardOf(doc, top_n) == Slice(doc.leaderboard, TopN(top_n))

(***************************************************************************)
(* export_to_csv, lines 615-681.  A CSV file is the list of its rows; a    *)
(* file whose write failed midway holds the head of the text.              *)
(***************************************************************************)
\* sep.join(parts); the empty list gives the empty text
Join(sep, parts) == [sep |-> sep, parts |-> parts]

\* text[:100] + '...' if len(text) > 100 else text: no feedback text of the
\* model is longer than 100 characters
Summary(text) == text

\* lines 627-651: the row of one attempt
AttemptRow(username, user, attempt) ==
    LET eval_data == attempt.evaluation IN
    [ username |-> username,
      timestamp |-> attempt.timestamp,
      scenario_id |-> attempt.scenario_id,
      total_score |-> attempt.score,
      clarity_score |-> eval_data.clarity_score,
      specificity_score |-> eval_data.specificity_score,
      structure_score |-> eval_data.structure_score,
      task_alignment_score |-> eval_data.task_alignment_score,
      skill_level |-> user.skill_level,
      total_attempts |-> user.attempts,
      cumulative_score |-> user.total_score,
      avg_score |-> Round2(user.total_score, user.attempts),
      badges_count |-> Len(user.badges),
      badges |-> Join(", ", user.badges),
      user_prompt |-> attempt.user_prompt,
      strengths |-> Join("; ", eval_data.strengths),
      improvements |-> Join("; ", eval_data.improvements),
      feedback_summary |-> Summary(eval_data.feedback) ]

\* mutant: the placeholder row has no feedback text
PlaceholderRowBlank(username, user) ==
    [ username |-> username,
      timestamp |-> "",
      scenario_id |-> <<>>,
      total_score |-> 0,
      clarity_score |-> 0,
      specificity_score |-> 0,
      structure_score |-> 0,
      task_alignment_score |-> 0,
      skill_level |-> user.skill_level,
      total_attempts |-> user.attempts,
      cumulative_score |-> user.total_score,
      avg_score |-> 0,
      badges_count |-> Len(user.badges),
      badges |-> Join(", ", user.badges),
      user_prompt |-> "",
      strengths |-> Join("; ", <<>>),
      improvements |-> Join("; ", <<>>),
      feedback_summary |-> "" ]

\* lines 652-672: the row of a user without attempts
PlaceholderRow(username, user) ==
    [ username |-> username,
      timestamp |-> "",
      scenario_id |-> <<>>,
      total_score |-> 0,
      clarity_score |-> 0,
      specificity_score |-> 0,
      structure_score |-> 0,
      task_alignment_score |-> 0,
      skill_level |-> user.skill_level,
      total_attempts |-> user.attempts,
      cumulative_score |-> user.total_score,
      avg_score |-> 0,
      badges_count |-> Len(user.badges),
      badges |-> Join(", ", user.badges),
      user_prompt |-> "",
      strengths |-> Join("; ", <<>>),
      improvements |-> Join("; ", <<>>),
      feedback_summary |-> "No attempts yet" ]

\* mutant: users without attempts get no row
UserRowsActive(username, user) ==
    [i \in 1..Len(user.history) |-> AttemptRow(username, user, user.history[i])]

\* lines 626-672: the rows of one user
UserRows(username, user) ==
    IF user.history # <<>>
    THEN [i \in 1..Len(user.history) |-> AttemptRow(username, user, user.history[i])]
    ELSE <<PlaceholderRow(username, user)>>

RECURSIVE RowsOf(_, _)
RowsOf(doc, names) ==
    IF names = <<>> THEN <<>>
    ELSE UserRows(names[1], doc.users[names[1]]) \o RowsOf(doc, Tail(names))

\* lines 624-672
ExportRows(doc) == RowsOf(doc, SetToSeq(DOMAIN doc.users))

\* the order of str on the usernames of the model
NameTable == <<"alice", "bob", "carol", "dave", "eve">>

NameRank(username) == CHOOSE n \in 1..Len(NameTable) : NameTable[n] = username

\* the order of str on timestamps: '' first, ISO texts by time
StampRank(stamp) == IF stamp = "" THEN 0 ELSE StampTick(stamp)

\* row a does not come after row b by ['username', 'timestamp']
RowLeq(a, b) ==
    \/ NameRank(a.username) < NameRank(b.username)
    \/ /\ a.username = b.username
       /\ StampRank(a.timestamp) <= StampRank(b.timestamp)

RECURSIVE InsertRow(_, _)
InsertRow(sorted, row) ==
    IF sorted = <<>> THEN <<row>>
    ELSE IF RowLeq(sorted[1], row)
         THEN <<sorted[1]>> \o InsertRow(Tail(sorted), row)
         ELSE <<row>> \o sorted

\* df.sort_values(['username', 'timestamp'], na_position='last'), line 677
RECURSIVE SortRows(_)
SortRows(rows) ==
    IF rows = <<>> THEN <<>>
    ELSE InsertRow(SortRows(SubSeq(rows, 1, Len(rows) - 1)), rows[Len(rows)])

Csv(rows) == [kind |-> "csv", rows |-> rows]
CutCsv(rows) == [kind |-> "cut", rows |-> rows]

\* lines 619-621: if not filename, the name carries the time to the second
ExportName(filename, now) ==
    IF filename = Omitted \/ filename = Given("")
    THEN <<"user_progress_export_", StrfTime(now), ".csv">>
    ELSE <<filename[1]>>

\* how df.to_csv may go: "ok", or open() raises, or a write raises after
\* part of the text is written
ExportOutcomes(doc, left) ==
    {"ok"} \cup (IF DOMAIN doc.users # {} /\ left >= 1
                 THEN {"open_fails", "write_fails"} ELSE {})

ExportCost(x) == IF x = "ok" THEN 0 ELSE 1

\* mutant: a store without users is exported as a file without rows
ExportToCsvRunAlways(doc, csv, filename, now, x) ==
    LET name == ExportName(filename, now)
        rows == ExportRows(doc)
        others == {e \in csv : e.name # name}
    IN CASE x = "ok" ->
              [ exports |-> others \cup {[name |-> name, content |-> Csv(SortRows(rows))]},
                raised |-> FALSE, ret |-> Value(name), branch |-> "written" ]
         [] x = "open_fails" ->
              [ exports |-> csv,
                raised |-> TRUE, ret |-> Raised, branch |-> "open_fails" ]
         [] x = "write_fails" ->
              [ exports |-> others \cup {[name |-> name, content |-> CutCsv(SortRows(rows))]},
                raised |-> TRUE, ret |-> Raised, branch |-> "write_fails" ]

\* export_to_csv(filename) at clock tick now, with the CSV files csv around:
\* the files afterwards, whether the call raised, what it returned
ExportToCsvRun(doc, csv, filename, now, x) ==
    LET name == ExportName(filename, now)
        rows == ExportRows(doc)
        others == {e \in csv : e.name # name}
    IN IF rows = <<>>
       THEN [exports |-> csv, raised |-> FALSE, ret |-> None, branch |-> "no_rows"]
       ELSE CASE x = "ok" ->
                   [ exports |-> others \cup {[name |-> name, content |-> Csv(SortRows(rows))]},
                     raised |-> FALSE, ret |-> Value(name), branch |-> "written" ]
              [] x = "open_fails" ->
                   [ exports |-> csv,
                     raised |-> TRUE, ret |-> Raised, branch |-> "open_fails" ]
              [] x = "write_fails" ->
                   [ exports |-> others \cup {[name |-> name, content |-> CutCsv(SortRows(rows))]},
                     raised |-> TRUE, ret |-> Raised, branch |-> "write_fails" ]

\* mutant: the users that have attempts are counted
BackupDueActive(doc) ==
    LET total_users == Cardinality({u \in DOMAIN doc.users : doc.users[u].attempts > 0})
    IN total_users > 0 /\ total_users % BackupEvery = 0

\* auto_backup_to_csv, lines 683-689
BackupDue(doc) ==
    LET total_users == Cardinality(DOMAIN doc.users)
    IN total_users > 0 /\ total_users % BackupEvery = 0

(***************************************************************************)
(* get_export_summary, lines 691-708.                                      *)
(***************************************************************************)
\* sum(user[field] for user in self.data["users"].values())
RECURSIVE SumField(_, _, _)
SumField(users, names, field) ==
    IF names = <<>> THEN 0
    ELSE users[names[1]][field] + SumField(users, Tail(names), field)

\* mutant: leaderboard_size is the number of users
GetExportSummaryUsers(doc) ==
    LET names == SetToSeq(DOMAIN doc.users)
        total_users == Cardinality(DOMAIN doc.users)
        total_attempts == SumField(doc.users, names, "attempts")
        active_users == Cardinality({u \in DOMAIN doc.users : doc.users[u].attempts > 0})
        avg_score_all ==
            IF total_attempts > 0
            THEN Round2(SumField(doc.users, names, "total_score"), total_attempts)
            ELSE 0
    IN [ total_users |-> total_users,
         active_users |-> active_users,
         total_attempts |-> total_attempts,
         avg_score_all_users |-> avg_score_all,
         leaderboard_size |-> total_users ]

GetExportSummaryOf(doc) ==
    LET names == SetToSeq(DOMAIN doc.users)
        total_users == Cardinality(DOMAIN doc.users)
        total_attempts == SumField(doc.users, names, "attempts")
        active_users == Cardinality({u \in DOMAIN doc.users : doc.users[u].attempts > 0})
        avg_score_all ==
            IF total_attempts > 0
            THEN Round2(SumField(doc.users, names, "total_score"), total_attempts)
            ELSE 0
    IN [ total_users |-> total_users,
         active_users |-> active_users,
         total_attempts |-> total_attempts,
         avg_score_all_users |-> avg_score_all,
         leaderboard_size |-> Len(doc.leaderboard) ]

(***************************************************************************)
(* The last completed call.                                                *)
(***************************************************************************)
Done(name, username, raised, saves, save_ok, pre_file, branch) ==
    [ name |-> name, user |-> username, raised |-> raised, saves |-> saves,
      save_ok |-> save_ok, pre_file |-> pre_file, branch |-> branch ]

NoArgs == [kind |-> "none"]
AttemptArgs(call) == [kind |-> "attempt", call |-> call]
TopArgs(top_n) == [kind |-> "top_n", top_n |-> top_n]
ExportArgs(filename) == [kind |-> "filename", filename |-> filename]

(***************************************************************************)
(* record_attempt, lines 523-555, run by a tracker that holds doc, at      *)
(* clock tick now, the environment having left faults to spend: every way  *)
(* the call may go, as what it leaves behind.  The export of line 553      *)
(* reads the clock in the second in which the attempt was stamped; how it  *)
(* went is kept as the branch of the call ("" when it was not invoked).    *)
(***************************************************************************)
RecordAttemptRuns(doc, f, t, csv, now, left, username, call) ==
    LET fresh == AddUserSaves(doc, username)
        d1 == AddUserDoc(doc, username)
        d2 == RecordDoc(d1, username, call, IsoFormat(now + 1))
        due == BackupDue(d2)
        AddSave(o1) ==
            IF fresh THEN SaveData(d1, f, t, o1)
            ELSE [file |-> f, tmp |-> t, ok |-> FALSE]
        Run(o1, x, o2) ==
            LET s1 == AddSave(o1)
                left1 == left - SaveCost(o1)
                ex == IF due THEN ExportToCsvRun(d2, csv, Omitted, now + 1, x)
                      ELSE [exports |-> csv, raised |-> FALSE, branch |-> ""]
                s2 == SaveData(d2, s1.file, s1.tmp, o2)
            IN IF ex.raised
               THEN \* the exception of export_to_csv leaves record_attempt
                    [ data |-> d2, file |-> s1.file, tmp |-> s1.tmp,
                      exports |-> ex.exports,
                      budget |-> left1 - ExportCost(x),
                      op |-> Done("record_attempt", username, TRUE,
                                  IF fresh THEN 1 ELSE 0, s1.ok, f, ex.branch) ]
               ELSE [ data |-> d2, file |-> s2.file, tmp |-> s2.tmp,
                      exports |-> ex.exports,
                      budget |-> left1 - SaveCost(o2),
                      op |-> Done("record_attempt", username, FALSE,
                                  IF fresh THEN 2 ELSE 1, s2.ok, s1.file, ex.branch) ]
    IN UNION { UNION { { Run(o1, x, o2) :
                           o2 \in IF x = "ok"
                                  THEN SaveOutcomes(AddSave(o1).tmp, left - SaveCost(o1))
                                  ELSE {NoFault} } :
                       x \in IF due THEN ExportOutcomes(d2, left - SaveCost(o1))
                             ELSE {"ok"} } :
               o1 \in IF fresh THEN SaveOutcomes(t, left) ELSE {NoFault} }

(***************************************************************************)
(* _save_data step by step, lines 490-509, for trackers that run at the    *)
(* same time (one tracker per session of the application, all on the same  *)
(* storage file and so on the same temporary path).  A file that is being  *)
(* written holds the text in two chunks, head and tail: json.dump writes   *)
(* through a buffer that is flushed when full and at close.  An open file  *)
(* follows its inode: fd tells under which path the inode is found now.    *)
(***************************************************************************)
Writers == {"tracker", "peer"}

Blank == [t |-> "blank"]
Chunks(head, tail) == [kind |-> "chunks", head |-> head, tail |-> tail]

\* a tracker that runs no call
Idle == [pc |-> "idle", fd |-> "none", user |-> "", pre |-> Absent]

Init ==
    /\ data = EmptyDoc
    /\ file = Absent
    /\ tmp = Absent
    /\ backups = {}
    /\ exports = {}
    /\ clock = 0
    /\ budget = MaxFaults
    /\ peer = EmptyDoc
    /\ saving = [w \in Writers |-> Idle]
    /\ op = Done("init", "", FALSE, 0, FALSE, Absent, "")
    /\ args = NoArgs
    /\ ret = None

\* tracker.add_user(username)
AddUser(username) ==
    /\ IF AddUserSaves(data, username)
       THEN \E o \in SaveOutcomes(tmp, budget) :
              LET saved == SaveData(AddUserDoc(data, username), file, tmp, o) IN
              /\ data' = AddUserDoc(data, username)
              /\ file' = saved.file
              /\ tmp' = saved.tmp
              /\ budget' = budget - SaveCost(o)
              /\ op' = Done("add_user", username, FALSE, 1, saved.ok, file, "")
              /\ UNCHANGED <<backups, exports, clock>>
       ELSE /\ data' = AddUserDoc(data, username)
            /\ op' = Done("add_user", username, FALSE, 0, FALSE, file, "")
            /\ UNCHANGED <<file, tmp, backups, exports, clock, budget>>
    /\ args' = NoArgs
    /\ ret' = None
    /\ UNCHANGED peer
    /\ UNCHANGED saving

\* tracker.record_attempt(username, scenario_id, score, evaluation, user_prompt)
RecordAttempt(username, call) ==
    \E r \in RecordAttemptRuns(data, file, tmp, exports, clock, budget, username, call) :
      /\ data' = r.data
      /\ file' = r.file
      /\ tmp' = r.tmp
      /\ exports' = r.exports
      /\ clock' = clock + 1
      /\ budget' = r.budget
      /\ op' = r.op
      /\ args' = AttemptArgs(call)
      /\ ret' = IF r.op.raised THEN Raised ELSE None
      /\ UNCHANGED <<backups, peer>>
      /\ UNCHANGED saving

\* tracker.get_user_stats(username)
GetUserStats(username) ==
    LET got == GetUserStatsOf(data, username) IN
    /\ data' = got.doc
    /\ ret' = got.ret
    /\ op' = Done("get_user_stats", username, FALSE, 0, FALSE, file, "")
    /\ args' = NoArgs
    /\ UNCHANGED <<file, tmp, backups, exports, clock, budget, peer>>
    /\ UNCHANGED saving

\* tracker.get_leaderboard(top_n)
GetLeaderboard(top_n) ==
    /\ ret' = Value(GetLeaderboardOf(data, top_n))
    /\ op' = Done("get_leaderboard", "", FALSE, 0, FALSE, file, "")
    /\ args' = TopArgs(top_n)
    /\ UNCHANGED <<data, file, tmp, backups, exports, clock, budget, peer>>
    /\ UNCHANGED saving

\* tracker.export_to_csv(filename)
ExportToCsv(filename) ==
    \E x \in ExportOutcomes(data, budget) :
      LET ex == ExportToCsvRun(data, exports, filename, clock, x) IN
      /\ exports' = ex.exports
      /\ ret' = ex.ret
      /\ budget' = budget - ExportCost(x)
      /\ op' = Done("export_to_csv", "", ex.raised, 0, FALSE, file, ex.branch)
      /\ args' = ExportArgs(filename)
      /\ UNCHANGED <<data, file, tmp, backups, clock, peer>>
      /\ UNCHANGED saving

\* tracker.get_export_summary()
GetExportSummary ==
    /\ ret' = Value(GetExportSummaryOf(data))
    /\ op' = Done("get_export_summary", "", FALSE, 0, FALSE, file, "")
    /\ args' = NoArgs
    /\ UNCHANGED <<data, file, tmp, backups, exports, clock, budget, peer, saving>>

\* UserProgressTracker(storage_file): self.data = self._load_data()
NewTracker ==
    \E o \in LoadOutcomes(file, budget) :
      LET loaded == LoadData(file, backups, o) IN
      /\ data' = loaded.doc
      /\ backups' = loaded.backups
      /\ budget' = budget - LoadCost(o)
      /\ op' = Done("load", "", FALSE, 0, FALSE, file, loaded.branch)
      /\ args' = NoArgs
      /\ ret' = None
      /\ UNCHANGED <<file, tmp, exports, clock, peer>>
      /\ UNCHANGED saving

\* another program overwrites the storage file
ForeignWrite ==
    /\ budget >= 1
    /\ \E f \in ForeignContents :
         /\ file' = f
         /\ budget' = budget - 1
         /\ op' = Done("foreign_write", "", FALSE, 0, FALSE, file, "")
    /\ args' = NoArgs
    /\ ret' = None
    /\ UNCHANGED <<data, tmp, backups, exports, clock, peer>>
    /\ UNCHANGED saving

(***************************************************************************)
(* The second tracker: another process that constructed its own            *)
(* UserProgressTracker on the same storage file, lines 457-459.  Its calls *)
(* are those of the class, run on its own document.                        *)
(***************************************************************************)
\* the other process constructs its tracker
PeerNew ==
    \E o \in LoadOutcomes(file, budget) :
      LET loaded == LoadData(file, backups, o) IN
      /\ peer' = loaded.doc
      /\ backups' = loaded.backups
      /\ budget' = budget - LoadCost(o)
      /\ op' = Done("peer_load", "", FALSE, 0, FALSE, file, loaded.branch)
      /\ args' = NoArgs
      /\ ret' = None
      /\ UNCHANGED <<data, file, tmp, exports, clock>>
      /\ UNCHANGED saving

\* the other process calls record_attempt on its tracker
PeerRecordAttempt(username, call) ==
    \E r \in RecordAttemptRuns(peer, file, tmp, exports, clock, budget, username, call) :
      /\ peer' = r.data
      /\ file' = r.file
      /\ tmp' = r.tmp
      /\ exports' = r.exports
      /\ clock' = clock + 1
      /\ budget' = r.budget
      /\ op' = [r.op EXCEPT !.name = "peer_record_attempt"]
      /\ args' = AttemptArgs(call)
      /\ ret' = IF r.op.raised THEN Raised ELSE None
      /\ UNCHANGED <<data, backups>>
      /\ UNCHANGED saving

(***************************************************************************)
(* add_user, lines 511-521, in steps: the record is made in memory, then   *)
(* _save_data runs: open the temporary file, write, move, and after an     *)
(* exception look for the temporary file and remove it.                    *)
(***************************************************************************)
DocOf(w) == IF w = "tracker" THEN data ELSE peer

\* json.dump(self.data, f, indent=2)
TextOf(w) == Dump(DocOf(w))

\* the call of writer w returns
Returned(w, ok) ==
    /\ op' = Done(IF w = "tracker" THEN "add_user" ELSE "peer_add_user",
                  saving[w].user, FALSE, 1, ok, saving[w].pre, "")
    /\ args' = NoArgs
    /\ ret' = None

\* lines 513-520: a new user's record; line 521 enters _save_data
BeginAddUser(w, username) ==
    /\ saving[w].pc = "idle"
    /\ AddUserSaves(DocOf(w), username)
    /\ IF w = "tracker"
       THEN data' = AddUserDoc(data, username) /\ UNCHANGED peer
       ELSE peer' = AddUserDoc(peer, username) /\ UNCHANGED data
    /\ saving' = [saving EXCEPT ![w] =
                     [pc |-> "open", fd |-> "none", user |-> username, pre |-> file]]
    /\ UNCHANGED <<file, tmp, backups, exports, clock, budget, op, args, ret>>

\* line 495: open(temp_file, 'w') creates the file or truncates the one
\* that is there, whoever is writing it
OpenTemp(w) ==
    /\ saving[w].pc = "open"
    /\ tmp' = Chunks(Blank, Blank)
    /\ saving' = [saving EXCEPT ![w].pc = "head", ![w].fd = "tmp"]
    /\ UNCHANGED <<data, file, backups, exports, clock, budget, peer, op, args, ret>>

\* line 496: a chunk of the text goes to the inode that w opened, at w's own
\* file position
WriteChunk(w, part) ==
    LET Put(c) == IF part = "head" THEN [c EXCEPT !.head = TextOf(w)]
                                   ELSE [c EXCEPT !.tail = TextOf(w)]
    IN /\ saving[w].pc = part
       /\ tmp' = IF saving[w].fd = "tmp" THEN Put(tmp) ELSE tmp
       /\ file' = IF saving[w].fd = "file" THEN Put(file) ELSE file
       /\ saving' = [saving EXCEPT ![w].pc = IF part = "head" THEN "tail" ELSE "move"]
       /\ UNCHANGED <<data, backups, exports, clock, budget, peer, op, args, ret>>

\* line 500: shutil.move(temp_file, self.storage_file) is os.rename; it
\* puts the inode at the temporary path, whoever wrote it, in place of the
\* storage file, and raises when there is no temporary file (the copy that
\* shutil.move then tries opens the source first and raises as well)
MoveTemp(w) ==
    /\ saving[w].pc = "move"
    /\ IF Exists(tmp)
       THEN /\ file' = tmp
            /\ tmp' = Absent
            /\ saving' = [v \in Writers |->
                            IF v = w THEN Idle
                            ELSE [saving[v] EXCEPT !.fd =
                                     CASE saving[v].fd = "tmp" -> "file"
                                       [] saving[v].fd = "file" -> "lost"
                                       [] OTHER -> saving[v].fd]]
            /\ Returned(w, TRUE)
       ELSE /\ saving' = [saving EXCEPT ![w].pc = "check", ![w].fd = "none"]
            /\ UNCHANGED <<file, tmp, op, args, ret>>
    /\ UNCHANGED <<data, backups, exports, clock, budget, peer>>

\* lines 501-505: the handler prints and asks os.path.exists(temp_file)
CheckTemp(w) ==
    /\ saving[w].pc = "check"
    /\ IF Exists(tmp)
       THEN /\ saving' = [saving EXCEPT ![w].pc = "remove"]
            /\ UNCHANGED <<op, args, ret>>
       ELSE /\ saving' = [saving EXCEPT ![w] = Idle]
            /\ Returned(w, FALSE)
    /\ UNCHANGED <<data, file, tmp, backups, exports, clock, budget, peer>>

\* lines 506-509: os.remove(temp_file), an exception of it swallowed
RemoveTemp(w) ==
    /\ saving[w].pc = "remove"
    /\ tmp' = Absent
    /\ saving' = [v \in Writers |->
                    IF v = w THEN Idle
                    ELSE IF Exists(tmp) /\ saving[v].fd = "tmp"
                         THEN [saving[v] EXCEPT !.fd = "lost"]
                         ELSE saving[v]]
    /\ Returned(w, FALSE)
    /\ UNCHANGED <<data, file, backups, exports, clock, budget, peer>>

Next ==
    \/ \E u \in Users : AddUser(u)
    \/ \E u \in Users, c \in Calls : clock < MaxClock /\ RecordAttempt(u, c)
    \/ NewTracker
    \/ ForeignWrite

Spec == Init /\ [][Next]_vars

(***************************************************************************)
(* The ledger alone: longer histories, a file system that never fails.     *)
(***************************************************************************)
InitLedger ==
    /\ data = EmptyDoc
    /\ file = Absent
    /\ tmp = Absent
    /\ backups = {}
    /\ exports = {}
    /\ clock = 0
    /\ budget = 0
    /\ peer = EmptyDoc
    /\ saving = [w \in Writers |-> Idle]
    /\ op = Done("init", "", FALSE, 0, FALSE, Absent, "")
    /\ args = NoArgs
    /\ ret = None

NextLedger ==
    \/ \E u \in Users : AddUser(u)
    \/ \E c \in LedgerCalls : clock < MaxDepth /\ RecordAttempt(c.user, c.call)

SpecLedger == InitLedger /\ [][NextLedger]_vars

(***************************************************************************)
(* Long histories: one user records up to MaxLong attempts while another   *)
(* user is added and records.                                              *)
(***************************************************************************)
NextLong ==
    \/ \E u \in Users : AddUser(u)
    \/ \E c \in LongCalls : clock < MaxLong /\ RecordAttempt(c.user, c.call)

SpecLong == InitLedger /\ [][NextLong]_vars

(***************************************************************************)
(* Exports on demand: users are added, record attempts and export the      *)
(* data to CSV files, under a file system that may fail.                   *)
(***************************************************************************)
\* the filename arguments of export_to_csv explored
Filenames == {Omitted, Given("empty_test.csv")}

\* calls of record_attempt explored by SpecExport
ExportCalls ==
    { By("alice", Call(<<"b", "1">>, 100, EvalFull, Given("Write a summary"))),
      By("bob", Call(<<"a", "1">>, 60, EvalBare, Omitted)) }

NextExport ==
    \/ \E u \in Users : AddUser(u)
    \/ \E c \in ExportCalls : clock < MaxExport /\ RecordAttempt(c.user, c.call)
    \/ \E filename \in Filenames : ExportToCsv(filename)

SpecExport == Init /\ [][NextExport]_vars

(***************************************************************************)
(* Automatic backups: enough users for auto_backup_to_csv to export, under *)
(* a file system that may fail.                                            *)
(***************************************************************************)
Crowd == {"alice", "bob", "carol", "dave", "eve"}

\* calls of record_attempt explored by SpecBackup
BackupCalls ==
    { By("alice", Call(<<"b", "1">>, 100, EvalFull, Given("Write a summary"))),
      By("eve", Call(<<"a", "1">>, 60, EvalBare, Omitted)) }

NextBackup ==
    \/ \E u \in Crowd : AddUser(u)
    \/ \E c \in BackupCalls : clock < MaxBackup /\ RecordAttempt(c.user, c.call)

SpecBackup == Init /\ [][NextBackup]_vars

(***************************************************************************)
(* The leaderboard: three users whose averages meet at 80 and at 85, by    *)
(* equal scores and by different scores.                                   *)
(***************************************************************************)
Rivals == {"alice", "bob", "carol"}

\* calls of record_attempt explored by SpecBoard
BoardCalls ==
    { By("alice", Call(<<"b", "1">>, 80, EvalBare, Omitted)),
      By("alice", Call(<<"b", "2">>, 90, EvalFull, Given("Write a summary"))),
      By("bob", Call(<<"b", "1">>, 80, EvalBare, Omitted)),
      By("bob", Call(<<"i", "1">>, 70, EvalBare, Given("Draft an email"))),
      By("bob", Call(<<"i", "2">>, 90, EvalFull, Given("Draft an email"))),
      By("carol", Call(<<"a", "1">>, 80, EvalFull, Given("Plan a migration"))) }

NextBoard ==
    \/ \E u \in Rivals : AddUser(u)
    \/ \E c \in BoardCalls : clock < MaxBoard /\ RecordAttempt(c.user, c.call)

SpecBoard == InitLedger /\ [][NextBoard]_vars

(***************************************************************************)
(* Queries: get_user_stats and get_leaderboard between the calls that      *)
(* build the document.                                                     *)
(***************************************************************************)
\* the usernames asked of get_user_stats: "mallory" is never added
Asked == Users \cup {"mallory"}

\* the top_n arguments of get_leaderboard explored
TopNs == {Omitted} \cup {Given(n) : n \in -1..MaxTop}

NextQuery ==
    \/ \E u \in Users : AddUser(u)
    \/ \E c \in ExportCalls : clock < MaxQuery /\ RecordAttempt(c.user, c.call)
    \/ \E u \in Asked : GetUserStats(u)
    \/ \E top_n \in TopNs : GetLeaderboard(top_n)

SpecQuery == InitLedger /\ [][NextQuery]_vars

(***************************************************************************)
(* Two processes: each holds a tracker on the same storage file, loads it, *)
(* records attempts and saves, in any order of their calls.                *)
(***************************************************************************)
NextTwo ==
    \/ \E c \in ExportCalls : clock < MaxTwo /\ RecordAttempt(c.user, c.call)
    \/ \E c \in ExportCalls : clock < MaxTwo /\ PeerRecordAttempt(c.user, c.call)
    \/ NewTracker
    \/ PeerNew

SpecTwo == InitLedger /\ [][NextTwo]_vars

(***************************************************************************)
(* One user's career: up to MaxCareer attempts of high, middling and low   *)
(* score, long enough for every badge and every skill level.               *)
(***************************************************************************)
\* arguments of record_attempt explored by SpecCareer
CareerCalls ==
    { Call(<<"a", "1">>, 100, EvalFull, Given("Plan a migration")),
      Call(<<"a", "2">>, 60, EvalBare, Omitted),
      Call(<<"b", "1">>, 20, EvalBare, Omitted) }

\* bob's attempts so far at scenarios whose id does not start with "a"
OffCount ==
    IF "bob" \in DOMAIN data.users
    THEN Len(SelectSeq(data.users["bob"].history,
                       LAMBDA h : ~StartsWith(h.scenario_id, "a")))
    ELSE 0

NextCareer ==
    \E c \in CareerCalls :
        /\ clock < MaxCareer
        /\ ~StartsWith(c.scenario_id, "a") => OffCount < MaxOff
        /\ RecordAttempt("bob", c)

SpecCareer == InitLedger /\ [][NextCareer]_vars

(***************************************************************************)
(* The rows of an export: users with and without attempts, histories of    *)
(* several entries, a file system that never fails.                        *)
(***************************************************************************)
NextRows ==
    \/ \E u \in Users : AddUser(u)
    \/ \E c \in ExportCalls : clock < MaxRows /\ RecordAttempt(c.user, c.call)
    \/ ExportToCsv(Given("test_export.csv"))

SpecRows == InitLedger /\ [][NextRows]_vars

(***************************************************************************)
(* Two sessions add users at the same time: their saves interleave step by *)
(* step on the one temporary path.                                         *)
(***************************************************************************)
NextRace ==
    \/ \E w \in Writers, u \in Users : BeginAddUser(w, u)
    \/ \E w \in Writers : OpenTemp(w)
    \/ \E w \in Writers, part \in {"head", "tail"} : WriteChunk(w, part)
    \/ \E w \in Writers : MoveTemp(w)
    \/ \E w \in Writers : CheckTemp(w)
    \/ \E w \in Writers : RemoveTemp(w)

SpecRace == InitLedger /\ [][NextRace]_vars

(***************************************************************************)
(* The summary of the export page: users with and without attempts, a file *)
(* system that may fail, a tracker that may be made anew.                  *)
(***************************************************************************)
NextSummary ==
    \/ \E u \in Users : AddUser(u)
    \/ \E c \in ExportCalls : clock < MaxSummary /\ RecordAttempt(c.user, c.call)
    \/ NewTracker
    \/ GetExportSummary

SpecSummary == Init /\ [][NextSummary]_vars

(***************************************************************************)
(* Properties.                                                             *)
(***************************************************************************)
Known == DOMAIN data.users

Scored(h) == [i \in 1..Len(h) |-> <<h[i].scenario_id, h[i].score>>]

EntriesOf(u) == Len(SelectSeq(data.leaderboard, LAMBDA e : e.username = u))

\* C1: for every user, total_score is the sum of the scores in the user's
\* history and attempts is the length of the history.
C1_CountersMatchHistory ==
    \A u \in Known :
        /\ data.users[u].total_score = SumScores(data.users[u].history)
        /\ data.users[u].attempts = Len(data.users[u].history)

C1_Witness ==
    \E u, v \in Known :
        /\ u # v
        /\ Len(data.users[u].history) >= 3
        /\ data.users[u].total_score > 200
        /\ Len(data.users[v].history) >= 2

\* C2 as stated: the leaderboard holds exactly one entry for each user key,
\* and no entry for a name that is no user key.
C2_OneEntryPerUser ==
    /\ \A u \in Known : EntriesOf(u) = 1
    /\ \A i \in 1..Len(data.leaderboard) : data.leaderboard[i].username \in Known

\* C2 amended: the leaderboard holds exactly one entry for each user that
\* has recorded an attempt, none for a user without attempts, and no entry
\* for a name that is no user key.
C2_OneEntryPerActiveUser ==
    /\ \A u \in Known :
          EntriesOf(u) = IF data.users[u].attempts > 0 THEN 1 ELSE 0
    /\ \A i \in 1..Len(data.leaderboard) : data.leaderboard[i].username \in Known

C2_Witness ==
    \E u, v \in Known :
        /\ data.users[u].attempts >= 2
        /\ EntriesOf(u) = 1
        /\ data.users[v].attempts = 0
        /\ EntriesOf(v) = 0

ScenarioA ==
    << << <<"b", "1">>, 100 >>, << <<"i", "1">>, 90 >>, << <<"a", "1">>, 95 >> >>

AliceRecordedA ==
    "alice" \in Known /\ Scored(data.users["alice"].history) = ScenarioA

\* C3 as stated: after alice records 100, 90, 95 on b1, i1, a1 her record has
\* total_score 285, attempts 3, skill_level beginner and the Perfect Score badge.
C3_ScenarioABeginner ==
    AliceRecordedA =>
        /\ data.users["alice"].total_score = 285
        /\ data.users["alice"].attempts = 3
        /\ data.users["alice"].skill_level = "beginner"
        /\ Has(data.users["alice"].badges, "Perfect Score")

\* C3 amended: after alice records 100, 90, 95 on b1, i1, a1 her record has
\* total_score 285, attempts 3, skill_level intermediate (average 95 >= 70
\* with 3 attempts) and the Perfect Score badge.
C3_ScenarioAIntermediate ==
    AliceRecordedA =>
        /\ data.users["alice"].total_score = 285
        /\ data.users["alice"].attempts = 3
        /\ data.users["alice"].skill_level = "intermediate"
        /\ Has(data.users["alice"].badges, "Perfect Score")

C3_Witness == AliceRecordedA

BobRecordedB ==
    /\ "bob" \in Known
    /\ Len(data.users["bob"].history) = 5
    /\ \A i \in 1..5 :
          /\ data.users["bob"].history[i].score = 90
          /\ StartsWith(data.users["bob"].history[i].scenario_id, "a")

\* C4: after bob records 5 attempts of score 90 on scenario ids starting
\* with "a", his badges contain Advanced Master and his skill_level is advanced.
C4_ScenarioB ==
    BobRecordedB =>
        /\ Has(data.users["bob"].badges, "Advanced Master")
        /\ data.users["bob"].skill_level = "advanced"

C4_Witness == BobRecordedB

\* C5: every add_user and record_attempt call keeps every badge of every
\* user, also a badge whose rule no longer holds for the longer history.
C5_BadgesGrow ==
    [][ op'.name \in {"add_user", "record_attempt"} =>
          \A u \in Known :
             /\ u \in DOMAIN data'.users
             /\ \A i \in 1..Len(data.users[u].badges) :
                   Has(data'.users[u].badges, data.users[u].badges[i]) ]_vars

C5_Witness ==
    \E u \in Known :
        /\ Has(data.users[u].badges, "Advanced Master")
        /\ ~MasterRule(data.users[u])
        /\ op.name = "record_attempt"

\* C6: add_user for a name that is a user key changes nothing in the
\* document or the files and saves nothing; for a new name it adds exactly
\* the record {0, 0, beginner, no badges, no history} and changes no other
\* user and not the leaderboard.
C6_AddUserIdempotent ==
    [][ op'.name = "add_user" =>
          IF op'.user \in Known
          THEN /\ data' = data
               /\ file' = file
               /\ tmp' = tmp
               /\ op'.saves = 0
          ELSE /\ DOMAIN data'.users = Known \cup {op'.user}
               /\ data'.users[op'.user] = NewUser
               /\ \A v \in Known : data'.users[v] = data.users[v]
               /\ data'.leaderboard = data.leaderboard
               /\ op'.saves = 1 ]_vars

C6_Witness ==
    /\ op.name = "add_user"
    /\ op.saves = 0
    /\ data.users[op.user].attempts > 0
    /\ Exists(file)

\* C7: when add_user or record_attempt has saved the document successfully
\* and a new tracker then reads the storage file, the new tracker's document
\* equals the one saved: users, each history and badge list, the leaderboard.
C7_RoundTrip ==
    [][ ( /\ op.name \in {"add_user", "record_attempt"}
          /\ op.save_ok
          /\ ~op.raised
          /\ op'.name = "load"
          /\ op'.branch # "read_error" ) =>
          /\ op'.branch = "loaded"
          /\ data' = data ]_vars

C7_Witness ==
    /\ op.name = "load"
    /\ op.branch = "loaded"
    /\ Len(data.leaderboard) = 2
    /\ \E u \in Known :
          data.users[u].badges # <<>> /\ data.users[u].history # <<>>

\* text that json.load rejects, or JSON that is no object with the keys
\* users and leaderboard
InvalidFile(f) ==
    \/ f.kind \in {"garbage", "truncated"}
    \/ f.kind = "json" /\ ~ValidStructure(f.json)

\* C8: a load that finds the storage file unparseable or structurally
\* invalid leaves a backup holding the file's bytes (unless the copy itself
\* fails) and returns the empty document.
C8_BackupOnInvalid ==
    ( /\ op.name = "load"
      /\ InvalidFile(file)
      /\ op.branch \notin {"read_error", "corrupted_no_backup"} ) =>
        /\ file \in backups
        /\ data = EmptyDoc

\* the last call ran _save_data and its last run of it failed
SaveFailed ==
    /\ op.name \in {"add_user", "record_attempt"}
    /\ op.saves > 0
    /\ ~op.save_ok

\* C9: save is all-or-nothing on the storage file: after a save that failed
\* over a previously saved document, the storage file holds that document
\* (or, at the least, a complete document), never a partially written one.
C9_LiveFileAllOrNothing ==
    (SaveFailed /\ ~op.raised /\ op.pre_file.kind = "json") =>
        \/ file = op.pre_file
        \/ file = Text(Dump(data))

\* C10: when the save at the end of record_attempt fails, the call returns,
\* the attempt stays in memory (history entry, counters, leaderboard entry),
\* the storage file holds what it held before that save, and _save_data ran
\* once (twice for a new user: once in add_user).
C10_FailedPersist ==
    ( /\ op.name = "record_attempt"
      /\ ~op.raised
      /\ ~op.save_ok
      /\ op.pre_file.kind = "json" ) =>
        LET user == data.users[op.user] IN
        /\ user.attempts = Len(user.history)
        /\ user.history[Len(user.history)].timestamp = IsoFormat(clock)
        /\ \E i \in 1..Len(data.leaderboard) :
              /\ data.leaderboard[i].username = op.user
              /\ data.leaderboard[i].total_attempts = user.attempts
        /\ op.saves <= 2
        /\ file = op.pre_file

\* C11: an I/O failure while export_to_csv writes the CSV file is reported
\* to the caller as the absent result None, and no exception leaves the call.
C11_ExportFailureAbsent ==
    ( /\ op.name = "export_to_csv"
      /\ op.branch \in {"open_fails", "write_fails"} ) =>
        /\ ~op.raised
        /\ ret = None

\* C14: export_to_csv on a store without users returns None, raises nothing
\* and creates or changes no file, with a filename given and without one.
C14_EmptyExport ==
    [][ (op'.name = "export_to_csv" /\ Known = {}) =>
          /\ ret' = None
          /\ ~op'.raised
          /\ exports' = exports
          /\ exports' = {} ]_vars

C14_Witness ==
    /\ op.name = "export_to_csv"
    /\ Known = {}
    /\ args.filename = Given("empty_test.csv")
    /\ ret = None
    /\ budget = MaxFaults

\* C12: no file fault halts attempt recording: whatever fails during a
\* record_attempt call (the CSV file of the automatic export, the storage
\* file), no exception leaves the call and the call runs on through its
\* last step, the save of the document.
C12_RecordingNeverHalts ==
    op.name = "record_attempt" =>
        /\ ~op.raised
        /\ ret = None
        /\ op.saves >= 1

\* the clock tick of the user's most recent record_attempt
LastTick(u) ==
    StampTick(data.users[u].history[Len(data.users[u].history)].timestamp)

\* the place of the user's entry in the leaderboard
Place(u) == CHOOSE i \in 1..Len(data.leaderboard) : data.leaderboard[i].username = u

\* the user has an entry, and its avg_score is 80.00
AtEighty(u) ==
    \E i \in 1..Len(data.leaderboard) :
        /\ data.leaderboard[i].username = u
        /\ data.leaderboard[i].avg_score = 8000

\* C13: the leaderboard is ordered by avg_score descending, and entries of
\* equal avg_score stand in the order of their users' most recent
\* record_attempt, the least recent first; so of two users both at average
\* 80 the one updated later stands after the other (Scenario D).
C13_LeaderboardOrder ==
    /\ \A i, j \in 1..Len(data.leaderboard) :
          i < j =>
            /\ data.leaderboard[i].avg_score >= data.leaderboard[j].avg_score
            /\ data.leaderboard[i].avg_score = data.leaderboard[j].avg_score =>
                  LastTick(data.leaderboard[i].username)
                      < LastTick(data.leaderboard[j].username)
    /\ \A x, y \in Known :
          (AtEighty(x) /\ AtEighty(y) /\ LastTick(x) < LastTick(y)) =>
              Place(x) < Place(y)

C13_Witness ==
    /\ Len(data.leaderboard) = 3
    /\ \A u \in Known : AtEighty(u)
    /\ Place("carol") < Place("bob")
    /\ Place("bob") < Place("alice")
    /\ data.users["bob"].attempts = 2

\* C15: record_attempt(u, scenario_id, score, evaluation, prompt) for a
\* username that is no user key first creates the user (add_user, which
\* saves), and for every u appends exactly one entry as the last element of
\* u's history, carrying the scenario_id, score and evaluation given and the
\* prompt given (the empty string when the argument is left out); the
\* earlier entries of u stay as they were, in the same order.
C15_AppendsOneEntry ==
    [][ op'.name = "record_attempt" =>
          LET u == op'.user
              call == args'.call
              before == IF u \in Known THEN data.users[u].history ELSE <<>>
          IN /\ u \in DOMAIN data'.users
             /\ u \notin Known => op'.saves = 2
             /\ LET after == data'.users[u].history
                    last == after[Len(after)]
                IN /\ Len(after) = Len(before) + 1
                   /\ \A i \in 1..Len(before) : after[i] = before[i]
                   /\ last.scenario_id = call.scenario_id
                   /\ last.score = call.score
                   /\ last.evaluation = call.evaluation
                   /\ IF call.user_prompt = Omitted
                      THEN last.user_prompt = ""
                      ELSE last.user_prompt = call.user_prompt[1] ]_vars

C15_Witness ==
    /\ op.name = "record_attempt"
    /\ args.call.user_prompt = Omitted
    /\ Len(data.users[op.user].history) >= 3
    /\ data.users[op.user].history[Len(data.users[op.user].history)].user_prompt = ""
    /\ data.users[op.user].history[1].user_prompt # ""

\* C16: get_user_stats(u) for a username that is no user key returns None,
\* raises nothing and leaves the document and the files as they were (it
\* does not create the user); for a user key it returns that user's record.
C16_StatsOfUnknownUser ==
    [][ op'.name = "get_user_stats" =>
          /\ ~op'.raised
          /\ data' = data
          /\ file' = file
          /\ IF op'.user \in Known
             THEN ret' = Value(data.users[op'.user])
             ELSE ret' = None /\ op'.user \notin DOMAIN data'.users ]_vars

C16_Witness ==
    /\ op.name = "get_user_stats"
    /\ op.user = "mallory"
    /\ ret = None
    /\ Known = Users
    /\ "mallory" \notin Known

\* C17: get_leaderboard(n) returns, for every n >= 0, exactly the first
\* min(n, length) entries of the stored leaderboard in stored order, and
\* leaves the leaderboard (the whole document) as it was.
C17_LeaderboardPrefix ==
    [][ (op'.name = "get_leaderboard" /\ TopN(args'.top_n) >= 0) =>
          LET n == TopN(args'.top_n)
              length == Len(data.leaderboard)
          IN /\ ret'.kind = "value"
             /\ Len(ret'.value) = (IF n <= length THEN n ELSE length)
             /\ \A i \in 1..Len(ret'.value) : ret'.value[i] = data.leaderboard[i]
             /\ data' = data ]_vars

C17_Witness ==
    /\ op.name = "get_leaderboard"
    /\ args.top_n = Given(1)
    /\ Len(data.leaderboard) = 2
    /\ ret.value = <<data.leaderboard[1]>>

\* the attempts a document holds: who recorded, and when
Attempts(doc) ==
    UNION { { <<u, doc.users[u].history[i].timestamp>> :
                i \in 1..Len(doc.users[u].history) } :
            u \in DOMAIN doc.users }

\* the attempts of the document in the storage file
OnDisk(f) == IF f.kind = "json" THEN Attempts(Load(f.json)) ELSE {}

\* C18: two trackers on one storage file lose updates: a tracker's save
\* puts that tracker's whole document in place of the file, so that every
\* attempt the other tracker recorded and saved since this tracker loaded
\* is missing from the file afterwards.
C18_LastWriterWins ==
    [][ /\ (op'.name = "peer_record_attempt" /\ op'.save_ok) =>
              /\ file' = Text(Dump(peer'))
              /\ OnDisk(file') \cap (Attempts(data) \ Attempts(peer)) = {}
        /\ (op'.name = "record_attempt" /\ op'.save_ok) =>
              /\ file' = Text(Dump(data'))
              /\ OnDisk(file') \cap (Attempts(peer) \ Attempts(data)) = {} ]_vars

\* both trackers loaded the absent file, each recorded one attempt and
\* saved it; the file lacks the attempt saved first
C18_Witness ==
    /\ op.name = "peer_record_attempt"
    /\ op.save_ok
    /\ clock = 2
    /\ Cardinality(Attempts(data)) = 1
    /\ Cardinality(Attempts(peer)) = 1
    /\ OnDisk(file) = Attempts(peer)
    /\ Attempts(data) \cap OnDisk(file) = {}

\* C19: after every record_attempt for user u, u's skill_level is advanced
\* if the average total_score / attempts, the attempt counted, is >= 85 and
\* attempts >= 5; otherwise intermediate if the average is >= 70 and
\* attempts >= 3; otherwise the value it had before the call (beginner for
\* a user the call created).
C19_SkillLevelRule ==
    [][ op'.name = "record_attempt" =>
          LET u == op'.user
              user == data'.users[u]
              prior == IF u \in Known THEN data.users[u].skill_level ELSE "beginner"
          IN user.skill_level =
               IF user.total_score >= 85 * user.attempts /\ user.attempts >= 5
               THEN "advanced"
               ELSE IF user.total_score >= 70 * user.attempts /\ user.attempts >= 3
                    THEN "intermediate"
                    ELSE prior ]_vars

\* the user of the last call is intermediate from before, by neither rule
C19_Witness ==
    /\ op.name = "record_attempt"
    /\ data.users[op.user].skill_level = "intermediate"
    /\ data.users[op.user].attempts >= 5
    /\ data.users[op.user].total_score < 70 * data.users[op.user].attempts

FourBadges ==
    {"Perfect Score", "Consistent Performer", "Dedicated Learner", "Advanced Master"}

\* the rule of a badge, for the history h of a user
RuleHeld(name, h) ==
    CASE name = "Perfect Score" ->
           \E i \in 1..Len(h) : h[i].score = 100
      [] name = "Consistent Performer" ->
           Cardinality({i \in 1..Len(h) : h[i].score > 80}) >= 3
      [] name = "Dedicated Learner" ->
           Len(h) >= 10
      [] name = "Advanced Master" ->
           LET advanced == SelectSeq(h, LAMBDA a : a.scenario_id[1] = "a")
           IN /\ Len(advanced) >= 5
              /\ SumScores(advanced) > 85 * Len(advanced)

\* C20: from an empty store, after each record_attempt the badge list of
\* every user holds exactly those of the four badges whose rule held for the
\* user's history right after this or some earlier attempt of the user
\* (Perfect Score: some score = 100; Consistent Performer: at least 3 scores
\* > 80; Dedicated Learner: at least 10 attempts; Advanced Master: at least
\* 5 attempts at scenario ids starting with "a", their average > 85), no
\* other name, and no name twice.
C20_BadgesExactly ==
    \A u \in Known :
        LET badges == data.users[u].badges
            history == data.users[u].history
        IN /\ \A i \in 1..Len(badges) : badges[i] \in FourBadges
           /\ \A i, j \in 1..Len(badges) : badges[i] = badges[j] => i = j
           /\ \A name \in FourBadges :
                 Has(badges, name) <=>
                     \E k \in 1..Len(history) : RuleHeld(name, SubSeq(history, 1, k))

\* all four badges, Advanced Master from a rule that holds no longer
C20_Witness ==
    \E u \in Known :
        /\ Len(data.users[u].badges) = 4
        /\ Len(data.users[u].history) = 10
        /\ ~RuleHeld("Advanced Master", data.users[u].history)
        /\ \E i \in 1..10 : data.users[u].history[i].scenario_id[1] # "a"

\* the CSV file that the export inside record_attempt writes for the
\* document doc at clock tick now
AutoExport(doc, now) ==
    [ name |-> ExportName(Omitted, now),
      content |-> Csv(SortRows(ExportRows(doc))) ]

C22_EntryAgreesWithRecord ==
    \A i \in 1..Len(data.leaderboard) :
        LET entry == data.leaderboard[i] IN
        /\ entry.username \in Known
        /\ LET user == data.users[entry.username]
               diff == 100 * user.total_score - entry.avg_score * user.attempts
           IN /\ entry.total_attempts = user.attempts
              /\ entry.skill_level = user.skill_level
              /\ entry.badges = Len(user.badges)
              /\ user.attempts > 0
              /\ 2 * diff <= user.attempts
              /\ -2 * diff <= user.attempts

\* the last call made its user intermediate at an average that is no whole
\* number (81.67); an entry counts two badges
C22_Witness ==
    /\ op.name = "record_attempt"
    /\ \E i \in 1..Len(data.leaderboard) :
          /\ data.leaderboard[i].username = op.user
          /\ data.leaderboard[i].total_attempts = 3
          /\ data.leaderboard[i].skill_level = "intermediate"
          /\ data.leaderboard[i].avg_score % 100 # 0
    /\ Len(data.leaderboard) = 2
    /\ \E i \in 1..Len(data.leaderboard) : data.leaderboard[i].badges >= 2

\* the rows of the file that the last export_to_csv call wrote
Exported == (CHOOSE f \in exports : f.name = ret.value).content.rows

\* the sum over the users S of max(1, len(history))
RECURSIVE RowsDue(_, _)
RowsDue(doc, S) ==
    IF S = {} THEN 0
    ELSE LET u == CHOOSE n \in S : TRUE
         IN Max(1, Len(doc.users[u].history)) + RowsDue(doc, S \ {u})

\* C23: an export of a store with users writes one row for each history
\* entry of each user and one row for each user without history, so
\* sum over users of max(1, len(history)) rows, and every row carries
\* the skill level, attempt count, total score and badge count that its user
\* has at the time of the export.
C23_ExportRowCount ==
    (op.name = "export_to_csv" /\ op.branch = "written") =>
        /\ Len(Exported) = RowsDue(data, Known)
        /\ \A u \in Known :
             LET user == data.users[u]
                 mine == SelectSeq(Exported, LAMBDA row : row.username = u)
             IN /\ Len(mine) = Max(1, Len(user.history))
                /\ \A k \in 1..Len(user.history) :
                     \E j \in 1..Len(mine) :
                         /\ mine[j].timestamp = user.history[k].timestamp
                         /\ mine[j].scenario_id = user.history[k].scenario_id
                         /\ mine[j].total_score = user.history[k].score
                         /\ \A i \in 1..Len(mine) :
                              mine[i].timestamp = mine[j].timestamp => i = j
                /\ \A j \in 1..Len(mine) :
                     /\ mine[j].skill_level = user.skill_level
                     /\ mine[j].total_attempts = user.attempts
                     /\ mine[j].cumulative_score = user.total_score
                     /\ mine[j].badges_count = Len(user.badges)

\* an export wrote three rows of alice, intermediate with two badges, and
\* one row of bob, who has no attempt
C23_Witness ==
    /\ op.name = "export_to_csv" /\ op.branch = "written"
    /\ Known = {"alice", "bob"}
    /\ Len(data.users["alice"].history) = 3
    /\ data.users["alice"].skill_level = "intermediate"
    /\ Len(data.users["alice"].badges) = 2
    /\ data.users["bob"].history = <<>>
    /\ Len(Exported) = 4

\* the exported rows of the users without attempts
Placeholders ==
    SelectSeq(Exported, LAMBDA row : data.users[row.username].history = <<>>)

\* the score fields of a row are zero
ZeroScores(row) ==
    /\ row.total_score = 0
    /\ row.clarity_score = 0
    /\ row.specificity_score = 0
    /\ row.structure_score = 0
    /\ row.task_alignment_score = 0
    /\ row.avg_score = 0

\* timestamp, scenario_id, user_prompt, strengths and improvements are the
\* empty text
EmptyTexts(row) ==
    /\ row.timestamp = ""
    /\ row.scenario_id = <<>>
    /\ row.user_prompt = ""
    /\ row.strengths.parts = <<>>
    /\ row.improvements.parts = <<>>

\* C24: the exported row of a user without attempts has the score fields
\* total_score, the four sub-scores and avg_score at zero, the text fields
\* timestamp, scenario_id, user_prompt, strengths and improvements empty, and
\* the feedback_summary 'No attempts yet'.
C24_PlaceholderRow ==
    (op.name = "export_to_csv" /\ op.branch = "written") =>
        \A j \in 1..Len(Placeholders) :
            /\ ZeroScores(Placeholders[j])
            /\ EmptyTexts(Placeholders[j])
            /\ Placeholders[j].feedback_summary = "No attempts yet"

\* C24 as stated: every text field of the row, feedback_summary among them,
\* is empty.
C24_PlaceholderAllEmpty ==
    (op.name = "export_to_csv" /\ op.branch = "written") =>
        \A j \in 1..Len(Placeholders) :
            /\ ZeroScores(Placeholders[j])
            /\ EmptyTexts(Placeholders[j])
            /\ Placeholders[j].feedback_summary = ""

\* an export wrote the row of bob, who has no attempt, next to a row of
\* alice, who has one
C24_Witness ==
    /\ op.name = "export_to_csv" /\ op.branch = "written"
    /\ Len(Placeholders) = 1
    /\ Placeholders[1].username = "bob"
    /\ Len(Exported) = 2

\* C25: the skill level can fall: a record_attempt for an advanced user
\* that brings the running average below 85 but not below 70 leaves the user
\* intermediate, and such a call is reachable (C25_Witness).
C25_AdvancedFallsBack ==
    [][ ( /\ op'.name = "record_attempt"
          /\ op'.user \in Known
          /\ data.users[op'.user].skill_level = "advanced"
          /\ data'.users[op'.user].total_score < 85 * data'.users[op'.user].attempts
          /\ data'.users[op'.user].total_score >= 70 * data'.users[op'.user].attempts )
        => data'.users[op'.user].skill_level = "intermediate" ]_vars

\* the user of the last call is intermediate at an average in [70, 85), and
\* was advanced by the rule after an earlier attempt
C25_Witness ==
    /\ op.name = "record_attempt"
    /\ LET user == data.users[op.user] IN
       /\ user.skill_level = "intermediate"
       /\ user.total_score < 85 * user.attempts
       /\ user.total_score >= 70 * user.attempts
       /\ \E k \in 5..(Len(user.history) - 1) :
             SumScores(SubSeq(user.history, 1, k)) >= 85 * k

\* the document that a record_attempt for a new user saved at line 521,
\* before the attempt was counted: the user's record is new and the
\* leaderboard has no entry of the user
BeforeAttempt ==
    [ users |-> [data.users EXCEPT ![op.user] = NewUser],
      leaderboard |-> SelectSeq(data.leaderboard,
                                LAMBDA entry : entry.username # op.user) ]

\* C26: when the last save of a call succeeded (the save that ends
\* record_attempt, or the save of add_user for a new user), the storage file
\* holds the whole document that the tracker had in memory at that save,
\* with every user and attempt whose own save had failed; the file and the
\* memory differ after a failed save no longer than to the next successful
\* save.  In a record_attempt that raised after add_user's save, the save
\* was made before the attempt was counted.
C26_SavedIsWhole ==
    (op.name \in {"add_user", "record_attempt"} /\ op.saves > 0 /\ op.save_ok) =>
        /\ file = Text(Dump(IF op.raised THEN BeforeAttempt ELSE data))
        /\ ~op.raised => OnDisk(file) = Attempts(data)
        /\ ~op.raised => DOMAIN Load(file.json).users = Known

\* the save of the last record_attempt succeeded and wrote two attempts, of
\* which the file held none before: the save of the earlier attempt had
\* failed (no export was tried: fewer than five users)
C26_Witness ==
    /\ op.name = "record_attempt" /\ op.save_ok /\ ~op.raised
    /\ budget = 0 /\ exports = {} /\ Cardinality(Known) < 5
    /\ op.pre_file.kind = "json"
    /\ Cardinality(Attempts(data) \ OnDisk(op.pre_file)) = 2
    /\ OnDisk(file) = Attempts(data)

\* the storage file, when there is one, holds the whole text of one save
LiveFileComplete ==
    Exists(file) => (file.kind = "chunks" /\ file.head = file.tail /\ file.head # Blank)

\* the temporary file that writer w opened and has not yet moved is still
\* at the temporary path and holds what w wrote to it, and nothing else
TempIntact(w) ==
    saving[w].pc \in {"head", "tail", "move"} =>
        /\ saving[w].fd = "tmp"
        /\ tmp = CASE saving[w].pc = "head" -> Chunks(Blank, Blank)
                   [] saving[w].pc = "tail" -> Chunks(TextOf(w), Blank)
                   [] saving[w].pc = "move" -> Chunks(TextOf(w), TextOf(w))

\* C27: when two trackers save to the same storage file at the same time,
\* through the same temporary path, then in every interleaving of their
\* steps the storage file holds a complete document that one of them saved,
\* never a truncated or mixed one, and no save removes or replaces the
\* temporary file that the other is writing.
C27_ConcurrentSavesSafe ==
    /\ LiveFileComplete
    /\ \A w \in Writers : TempIntact(w)

\* the leaderboard entries of the users other than username, in their order
EntriesButOf(leaderboard, username) ==
    SelectSeq(leaderboard, LAMBDA entry : entry.username # username)

\* C28: record_attempt for user u leaves the record of every other user
\* as it was, and the leaderboard entries of the other users as they were,
\* in content and in their order among themselves; only u's record and
\* u's entry change.
C28_RecordAttemptFrame ==
    [][ op'.name = "record_attempt" =>
          /\ DOMAIN data'.users = Known \cup {op'.user}
          /\ \A v \in Known \ {op'.user} : data'.users[v] = data.users[v]
          /\ EntriesButOf(data'.leaderboard, op'.user)
               = EntriesButOf(data.leaderboard, op'.user) ]_vars

\* the last call put its user's entry ahead of the entries of two others,
\* who are tied
C28_Witness ==
    /\ op.name = "record_attempt"
    /\ Len(data.leaderboard) = 3
    /\ data.leaderboard[1].username = op.user
    /\ data.leaderboard[2].avg_score = data.leaderboard[3].avg_score
    /\ data.users[op.user].attempts = 2

\* C29: from an empty store on, an advanced user has at least 5 attempts,
\* an intermediate user has at least 3, every level is one of the three,
\* and a user whose level is not beginner is not beginner after any later
\* step, whatever the scores (also when the average falls below 70).
C29_LevelsNeedAttempts ==
    [][ /\ \A u \in DOMAIN data'.users :
             LET user == data'.users[u] IN
             /\ user.skill_level \in {"beginner", "intermediate", "advanced"}
             /\ user.skill_level = "advanced" => user.attempts >= 5
             /\ user.skill_level = "intermediate" => user.attempts >= 3
        /\ \A u \in Known :
             data.users[u].skill_level # "beginner" =>
                 /\ u \in DOMAIN data'.users
                 /\ data'.users[u].skill_level # "beginner" ]_vars

\* a user of eight or more attempts, the last one at 20, is intermediate at
\* an average below 70
C29_Witness ==
    \E u \in Known :
        LET user == data.users[u] IN
        /\ user.skill_level = "intermediate"
        /\ user.attempts >= 8
        /\ user.total_score < 70 * user.attempts
        /\ user.history[Len(user.history)].score = 20

\* the users that have at least one attempt
Active == {u \in Known : data.users[u].attempts > 0}

\* the attempts of the users S, counted together
RECURSIVE AttemptsOf(_)
AttemptsOf(S) ==
    IF S = {} THEN 0
    ELSE LET u == CHOOSE n \in S : TRUE
         IN data.users[u].attempts + AttemptsOf(S \ {u})

\* C30: from an empty store on, get_export_summary reports total_users =
\* the number of user keys, total_attempts = the sum of the users' attempts,
\* active_users = the number of users with attempts > 0, and
\* leaderboard_size = active_users <= total_users: the leaderboard holds one
\* entry for each user with an attempt and no other entry.
C30_SummaryCounts ==
    op.name = "get_export_summary" =>
        /\ ret.kind = "value"
        /\ ret.value.total_users = Cardinality(Known)
        /\ ret.value.total_attempts = AttemptsOf(Known)
        /\ ret.value.active_users = Cardinality(Active)
        /\ ret.value.leaderboard_size = ret.value.active_users
        /\ ret.value.active_users <= ret.value.total_users
        /\ {data.leaderboard[i].username : i \in 1..Len(data.leaderboard)} = Active
        /\ Len(data.leaderboard) = Cardinality(Active)

\* the summary of two users, of whom one has two attempts and the other
\* none
C30_Witness ==
    /\ op.name = "get_export_summary"
    /\ ret.value.total_users = 2
    /\ ret.value.active_users = 1
    /\ ret.value.total_attempts = 2
    /\ ret.value.leaderboard_size = 1

====
